---------------------------- MODULE Spec2Model ----------------------------
(***************************************************************************)
(* Sudoku backtracking solver (solver.py: SudokuSolver) and the forward-   *)
(* checking propagator (csp.py: forward_check / FCState).                  *)
(*                                                                         *)
(* Grids are 0-based as in the source: puzzle[r][c] with r, c in 0..8.     *)
(* The recursion of backtrack is an explicit stack of frames; one action   *)
(* runs a call from its entry (or from the return of its callee) up to the *)
(* next recursive call or to its own return.                               *)
(***************************************************************************)
EXTENDS Integers, Sequences, FiniteSets, TLC

VARIABLES
    pc,          \* "new" | "ctor_error" | "ready" | "call" | "ret" | "done"
    input,       \* the grid handed to SudokuSolver.__init__
    puzzle,      \* self.puzzle
    start_time,  \* self.start_time (None before solve)
    time_limit,  \* self.time_limit
    timed_out,   \* self.timed_out
    trace,       \* self.trace
    stack,       \* active backtrack frames, innermost last
    retval,      \* value returned by the backtrack call that returned last
    solved,      \* first component of solve's result
    elapsed,     \* second component of solve's result
    now,         \* last value returned by time.time()
    clock_ok,    \* history: no reading of the clock was below the previous one
    expired,     \* history: some deadline check found elapsed > time_limit
    first_check, \* history: <<elapsed>> seen by the first deadline check, else <<>>
    domains,     \* csp.py: domains (Var -> set of values)
    assignments, \* csp.py: assignments (Var -> value, None when absent)
    trails,      \* csp.py: live FCState.pruned trails, most recent last
    snaps,       \* history: domains before each live forward_check, same order
    set_order,   \* csp.py: iteration order of the NEIGHBORS sets of this run
    fc           \* history: the last propagator operation (forward_check or
                 \* restore), the number of domain removals it made or undid
                 \* and, for a forward_check that returned a trail, its var
                 \* and val

solverVars == <<pc, input, puzzle, start_time, time_limit, timed_out, trace,
                stack, retval, solved, elapsed, now, clock_ok, expired,
                first_check>>
fcVars == <<domains, assignments, trails, snaps, set_order, fc>>
vars == <<pc, input, puzzle, start_time, time_limit, timed_out, trace,
          stack, retval, solved, elapsed, now, clock_ok, expired,
          first_check, domains, assignments, trails, snaps, set_order, fc>>

-----------------------------------------------------------------------------
(* Program constants *)

N == 9
BoxN == 3
TraceCap == 4
None == -1

(* Bounds of the model *)

PoolSize == 8
MaxTime == 1
MaxLimit == 0
MaxVal == 2
MaxTrails == 2

Idx == 0 .. (N - 1)
Cells == Idx \X Idx
Times == 0 .. MaxTime
Limits == 0 .. MaxLimit

-----------------------------------------------------------------------------
(* Input grids: the solution of the example puzzle of solver.py with some  *)
(* cells blanked and possibly one given overwritten.                       *)

BaseRows ==
    << <<4,3,5,2,6,9,7,8,1>>,
       <<6,8,2,5,7,1,4,9,3>>,
       <<1,9,7,8,3,4,5,6,2>>,
       <<8,2,6,1,9,5,3,4,7>>,
       <<3,7,4,6,8,2,9,1,5>>,
       <<9,5,1,7,4,3,6,2,8>>,
       <<5,1,9,3,2,6,8,7,4>>,
       <<2,4,8,9,5,7,1,3,6>>,
       <<7,6,3,4,1,8,2,5,9>> >>

Base == [r \in Idx |-> [c \in Idx |-> BaseRows[r + 1][c + 1]]]

(* Cells that an input may leave empty, in the order the bound admits them *)
PoolSeq ==
    << <<0,1>>, <<0,4>>, <<0,5>>, <<2,1>>, <<2,4>>, <<2,5>>, <<5,4>>, <<5,5>>,
       <<7,3>>, <<8,8>> >>

Pool == { PoolSeq[i] : i \in 1 .. PoolSize }

(* Overwritten givens <<row, col, value>>; index 0 means none.  The first  *)
(* leaves the givens conflict-free when its peers holding 9 are empty, the *)
(* second duplicates a given, the third is out of range.  The fourth is    *)
(* conflict-free when its peers holding 3 are empty, and these then have   *)
(* no candidate left.                                                      *)
Tampers == << <<0,1,9>>, <<0,0,6>>, <<0,0,10>>, <<0,4,3>> >>

TamperIds == 0 .. Len(Tampers)

MkGrid(E, t) ==
    [r \in Idx |-> [c \in Idx |->
        IF t # 0 /\ Tampers[t][1] = r /\ Tampers[t][2] = c THEN Tampers[t][3]
        ELSE IF <<r, c>> \in E THEN 0
        ELSE Base[r][c]]]

ShortGrid == [r \in 0 .. (N - 2) |-> Base[r]]
WideGrid == [r \in Idx |-> IF r = 0 THEN [c \in 0 .. N |-> 0] ELSE Base[r]]

InputGrids ==
    { MkGrid(E, t) : E \in SUBSET Pool, t \in TamperIds } \cup {ShortGrid, WideGrid}

NoGrid == <<>>

-----------------------------------------------------------------------------
(* Helpers on grids *)

RowCells(r) == { <<r, c>> : c \in Idx }
ColCells(c) == { <<r, c>> : r \in Idx }
BoxCells(r, c) ==
    LET br == (r \div BoxN) * BoxN
        bc == (c \div BoxN) * BoxN
    IN  { <<rr, cc>> : rr \in br .. (br + BoxN - 1), cc \in bc .. (bc + BoxN - 1) }

(* the cells sharing a row, a column or a box with (r, c), itself included *)
Units == [r \in Idx |-> [c \in Idx |-> RowCells(r) \cup ColCells(c) \cup BoxCells(r, c)]]

At(p, cell) == p[cell[1]][cell[2]]

(* range(1, 10) *)
Values == [v \in 1 .. N |-> v]

(* candidates drawn from 0..9 *)
Candidates_FromZero(p, row, col) ==
    IF p[row][col] # 0 THEN <<>>
    ELSE LET used == { At(p, x) : x \in { y \in Units[row][col] : At(p, y) # 0 } }
             Unused(v) == v \notin used
         IN  SelectSeq([k \in 1 .. (N + 1) |-> k - 1], Unused)

(* candidates listed from 9 down to 1 *)
Candidates_Descending(p, row, col) ==
    IF p[row][col] # 0 THEN <<>>
    ELSE LET used == { At(p, x) : x \in { y \in Units[row][col] : At(p, y) # 0 } }
             Unused(v) == v \notin used
         IN  SelectSeq([k \in 1 .. N |-> N + 1 - k], Unused)

(* SudokuSolver._candidates *)
Candidates(p, row, col) ==
    IF p[row][col] # 0 THEN <<>>
    ELSE LET used == { At(p, x) : x \in { y \in Units[row][col] : At(p, y) # 0 } }
             Unused(v) == v \notin used
         IN  SelectSeq(Values, Unused)

(* SudokuSolver._degree *)
Degree(p, row, col) ==
    IF p[row][col] # 0 THEN -1
    ELSE Cardinality({ x \in Units[row][col] \ {<<row, col>>} : At(p, x) = 0 })

(* a comparison that leaves the degree out of the key *)
KeyLess_SkipDegree(a, b) ==
    \E i \in {1, 3, 4} : a[i] < b[i] /\ \A j \in {1, 3, 4} : j < i => a[j] = b[j]

(* tuple comparison key < best[:4] of find_unassigned *)
KeyLess(a, b) ==
    \E i \in 1 .. 4 : a[i] < b[i] /\ \A j \in 1 .. (i - 1) : a[j] = b[j]

NoBest == [key |-> <<>>, cand |-> <<>>]

(* SudokuSolver.find_unassigned: the scan over r, c in row-major order,    *)
(* from cell number k on, with the best entry found so far.                *)
RECURSIVE FindFrom(_, _, _)
FindFrom(p, k, best) ==
    IF k = N * N
    THEN IF best = NoBest
         THEN [r |-> None, c |-> None, cand |-> <<>>, mrv |-> None, deg |-> None]
         ELSE [r |-> best.key[4], c |-> best.key[3], cand |-> best.cand,
               mrv |-> best.key[1], deg |-> 0 - best.key[2]]
    ELSE LET r == k \div N
             c == k % N
         IN  IF p[r][c] # 0 THEN FindFrom(p, k + 1, best)
             ELSE LET cand == Candidates(p, r, c)
                      mrv == Len(cand)
                  IN  IF mrv = 0
                      THEN [r |-> r, c |-> c, cand |-> <<>>, mrv |-> 0,
                            deg |-> Degree(p, r, c)]
                      ELSE LET key == <<mrv, 0 - Degree(p, r, c), c, r>>
                           IN  FindFrom(p, k + 1,
                                   IF best = NoBest \/ KeyLess(key, best.key)
                                   THEN [key |-> key, cand |-> cand]
                                   ELSE best)

find_unassigned(p) == FindFrom(p, 0, NoBest)

(* SudokuSolver.is_valid *)
is_valid(p, row, col, val) ==
    \A x \in Units[row][col] : At(p, x) # val

(* the cell write with row and column exchanged *)
Put_Transposed(p, row, col, val) == [p EXCEPT ![col][row] = val]

(* self.puzzle[row][col] = val *)
Put(p, row, col, val) == [p EXCEPT ![row][col] = val]

-----------------------------------------------------------------------------
(* The solver *)

InitSolver ==
    /\ pc = "new"
    /\ input = NoGrid
    /\ puzzle = NoGrid
    /\ start_time = None
    /\ time_limit = 0
    /\ timed_out = FALSE
    /\ trace = <<>>
    /\ stack = <<>>
    /\ retval = FALSE
    /\ solved = FALSE
    /\ elapsed = 0
    /\ now = 0
    /\ clock_ok = TRUE
    /\ expired = FALSE
    /\ first_check = <<>>

InitIdleFC ==
    /\ domains = <<>>
    /\ assignments = <<>>
    /\ trails = <<>>
    /\ snaps = <<>>
    /\ set_order = FALSE
    /\ fc = [op |-> "idle", size |-> 0, var |-> <<>>, val |-> 0]

Init == InitSolver /\ InitIdleFC

(* the assert of SudokuSolver.__init__ *)
IsNineByNine(g) ==
    /\ Cardinality(DOMAIN g) = N
    /\ \A r \in DOMAIN g : Cardinality(DOMAIN g[r]) = N

(* SudokuSolver.__init__ *)
Construct ==
    /\ pc = "new"
    /\ \E g \in InputGrids, lim \in Limits :
        /\ input' = g
        /\ IF IsNineByNine(g)
           THEN /\ puzzle' = g
                /\ start_time' = None
                /\ time_limit' = lim
                /\ timed_out' = FALSE
                /\ trace' = <<>>
                /\ pc' = "ready"
           ELSE /\ pc' = "ctor_error"
                /\ UNCHANGED <<puzzle, start_time, time_limit, timed_out, trace>>
    /\ UNCHANGED <<stack, retval, solved, elapsed, now, clock_ok, expired,
                first_check>>
    /\ UNCHANGED fcVars

(* one call of time.time(): the reading t becomes the last reading *)
ReadClock(t) ==
    /\ now' = t
    /\ clock_ok' = (clock_ok /\ t >= now)

(* history of a deadline check made with the clock reading t *)
NoteCheck(t) ==
    first_check' = IF first_check = <<>> THEN <<t - start_time>> ELSE first_check

(* the deadline test with the limit taken one tick too long *)
DeadlinePassed_Late(t) == start_time # None /\ (t - start_time) > time_limit + 1

(* the deadline test of backtrack with the clock reading t *)
DeadlinePassed(t) == start_time # None /\ (t - start_time) > time_limit

(* a loop that tries the first candidate only *)
NextValid_FirstOnly(p, f, i) ==
    IF i = 1 /\ Len(f.cand) >= 1 /\ is_valid(p, f.r, f.c, f.cand[1]) THEN 1
    ELSE Len(f.cand) + 1

(* position of the first value of f.cand, from position i on, that passes  *)
(* is_valid on grid p; Len(f.cand) + 1 when there is none                  *)
RECURSIVE NextValid(_, _, _)
NextValid(p, f, i) ==
    IF i > Len(f.cand) THEN i
    ELSE IF is_valid(p, f.r, f.c, f.cand[i]) THEN i
    ELSE NextValid(p, f, i + 1)

(* a loop whose trace test lets one entry too many in *)
LoopFrom_TraceOffByOne(p, rest, f, i) ==
    \E j \in {NextValid(p, f, i)} :
        IF j <= Len(f.cand)
        THEN /\ trace' = IF Len(trace) <= TraceCap
                         THEN Append(trace, [row |-> f.r, col |-> f.c,
                                             domain_size |-> f.mrv,
                                             degree |-> f.deg,
                                             value |-> f.cand[j]])
                         ELSE trace
             /\ puzzle' = Put(p, f.r, f.c, f.cand[j])
             /\ stack' = Append(rest, [f EXCEPT !.i = j])
             /\ pc' = "call"
             /\ retval' = retval
        ELSE /\ trace' = trace
             /\ puzzle' = p
             /\ stack' = rest
             /\ pc' = "ret"
             /\ retval' = FALSE

(* the for loop of backtrack for frame f, continued at position i of its   *)
(* candidates on grid p: up to the next recursive call, or to return False *)
LoopFrom(p, rest, f, i) ==
    \E j \in {NextValid(p, f, i)} :
        IF j <= Len(f.cand)
        THEN /\ trace' = IF Len(trace) < TraceCap
                         THEN Append(trace, [row |-> f.r, col |-> f.c,
                                             domain_size |-> f.mrv,
                                             degree |-> f.deg,
                                             value |-> f.cand[j]])
                         ELSE trace
             /\ puzzle' = Put(p, f.r, f.c, f.cand[j])
             /\ stack' = Append(rest, [f EXCEPT !.i = j])
             /\ pc' = "call"
             /\ retval' = retval
        ELSE /\ trace' = trace
             /\ puzzle' = p
             /\ stack' = rest
             /\ pc' = "ret"
             /\ retval' = FALSE

(* backtrack whose entry deadline check sets timed_out but does not return *)
BacktrackCall_NoReturn ==
    /\ pc = "call"
    /\ \E sel \in {find_unassigned(puzzle)} :
           \E t \in Times :
            /\ ReadClock(t)
            /\ NoteCheck(t)
            /\ timed_out' = (timed_out \/ DeadlinePassed(t))
            /\ expired' = (expired \/ DeadlinePassed(t))
            /\ IF sel.r = None
               THEN /\ pc' = "ret"
                    /\ retval' = TRUE
                    /\ UNCHANGED <<puzzle, trace, stack>>
               ELSE LoopFrom(puzzle, stack,
                             [r |-> sel.r, c |-> sel.c, cand |-> sel.cand,
                              mrv |-> sel.mrv, deg |-> sel.deg, i |-> 0], 1)
    /\ UNCHANGED <<input, start_time, time_limit, solved, elapsed>>
    /\ UNCHANGED fcVars

(* backtrack that takes an empty candidate list for a finished grid *)
BacktrackCall_EmptyIsDone ==
    /\ pc = "call"
    /\ \E sel \in {find_unassigned(puzzle)} :
           \E t \in Times :
            /\ ReadClock(t)
            /\ NoteCheck(t)
            /\ IF DeadlinePassed(t)
               THEN /\ timed_out' = TRUE
                    /\ expired' = TRUE
                    /\ pc' = "ret"
                    /\ retval' = FALSE
                    /\ UNCHANGED <<puzzle, trace, stack>>
               ELSE /\ UNCHANGED <<timed_out, expired>>
                    /\ IF sel.r = None \/ sel.cand = <<>>
                       THEN /\ pc' = "ret"
                            /\ retval' = TRUE
                            /\ UNCHANGED <<puzzle, trace, stack>>
                       ELSE LoopFrom(puzzle, stack,
                                     [r |-> sel.r, c |-> sel.c, cand |-> sel.cand,
                                      mrv |-> sel.mrv, deg |-> sel.deg, i |-> 0], 1)
    /\ UNCHANGED <<input, start_time, time_limit, solved, elapsed>>
    /\ UNCHANGED fcVars

(* SudokuSolver.backtrack from its entry *)
BacktrackCall ==
    /\ pc = "call"
    /\ \E sel \in {find_unassigned(puzzle)} :
           \E t \in Times :
            /\ ReadClock(t)
            /\ NoteCheck(t)
            /\ IF DeadlinePassed(t)
               THEN /\ timed_out' = TRUE
                    /\ expired' = TRUE
                    /\ pc' = "ret"
                    /\ retval' = FALSE
                    /\ UNCHANGED <<puzzle, trace, stack>>
               ELSE /\ UNCHANGED <<timed_out, expired>>
                    /\ IF sel.r = None
                       THEN /\ pc' = "ret"
                            /\ retval' = TRUE
                            /\ UNCHANGED <<puzzle, trace, stack>>
                       ELSE LoopFrom(puzzle, stack,
                                     [r |-> sel.r, c |-> sel.c, cand |-> sel.cand,
                                      mrv |-> sel.mrv, deg |-> sel.deg, i |-> 0], 1)
    /\ UNCHANGED <<input, start_time, time_limit, solved, elapsed>>
    /\ UNCHANGED fcVars

(* backtrack whose deadline check after a failed recursive call comes      *)
(* before the undo                                                         *)
BacktrackResume_CheckBeforeUndo ==
    /\ pc = "ret"
    /\ stack # <<>>
    /\ LET f == stack[Len(stack)]
           rest == SubSeq(stack, 1, Len(stack) - 1)
       IN  \/ /\ retval
              /\ stack' = rest
              /\ UNCHANGED <<pc, retval, puzzle, trace, timed_out, expired,
                             now, clock_ok, first_check>>
           \/ /\ ~retval
              /\ \E t \in Times :
                  /\ ReadClock(t)
                  /\ NoteCheck(t)
                  /\ IF DeadlinePassed(t)
                     THEN /\ timed_out' = TRUE
                          /\ expired' = TRUE
                          /\ stack' = rest
                          /\ UNCHANGED <<pc, retval, trace, puzzle>>
                     ELSE /\ UNCHANGED <<timed_out, expired>>
                          /\ LoopFrom(Put(puzzle, f.r, f.c, 0), rest, f, f.i + 1)
    /\ UNCHANGED <<input, start_time, time_limit, solved, elapsed>>
    /\ UNCHANGED fcVars

(* backtrack without the deadline check that follows the undo *)
BacktrackResume_NoRecheck ==
    /\ pc = "ret"
    /\ stack # <<>>
    /\ LET f == stack[Len(stack)]
           rest == SubSeq(stack, 1, Len(stack) - 1)
       IN  \/ /\ retval
              /\ stack' = rest
              /\ UNCHANGED <<pc, retval, puzzle, trace>>
           \/ /\ ~retval
              /\ LoopFrom(Put(puzzle, f.r, f.c, 0), rest, f, f.i + 1)
    /\ UNCHANGED <<timed_out, expired, now, clock_ok, first_check>>
    /\ UNCHANGED <<input, start_time, time_limit, solved, elapsed>>
    /\ UNCHANGED fcVars

(* SudokuSolver.backtrack from the return of its recursive call *)
BacktrackResume ==
    /\ pc = "ret"
    /\ stack # <<>>
    /\ LET f == stack[Len(stack)]
           rest == SubSeq(stack, 1, Len(stack) - 1)
       IN  \/ /\ retval
              /\ stack' = rest
              /\ UNCHANGED <<pc, retval, puzzle, trace, timed_out, expired,
                             now, clock_ok, first_check>>
           \/ /\ ~retval
              /\ \E t \in Times :
                  /\ ReadClock(t)
                  /\ NoteCheck(t)
                  /\ IF DeadlinePassed(t)
                     THEN /\ timed_out' = TRUE
                          /\ expired' = TRUE
                          /\ puzzle' = Put(puzzle, f.r, f.c, 0)
                          /\ stack' = rest
                          /\ UNCHANGED <<pc, retval, trace>>
                     ELSE /\ UNCHANGED <<timed_out, expired>>
                          /\ LoopFrom(Put(puzzle, f.r, f.c, 0), rest, f, f.i + 1)
    /\ UNCHANGED <<input, start_time, time_limit, solved, elapsed>>
    /\ UNCHANGED fcVars

(* SudokuSolver.solve up to its call of backtrack *)
Solve ==
    /\ pc = "ready"
    /\ \E t \in Times :
        /\ ReadClock(t)
        /\ start_time' = t
    /\ pc' = "call"
    /\ UNCHANGED <<input, puzzle, time_limit, timed_out, trace, stack, retval,
                   solved, elapsed, expired, first_check>>
    /\ UNCHANGED fcVars

(* SudokuSolver.solve from the return of backtrack *)
SolveReturn ==
    /\ pc = "ret"
    /\ stack = <<>>
    /\ \E t \in Times :
        /\ ReadClock(t)
        /\ elapsed' = t - start_time
    /\ solved' = retval
    /\ pc' = "done"
    /\ UNCHANGED <<input, puzzle, start_time, time_limit, timed_out, trace, stack,
                   retval, expired, first_check>>
    /\ UNCHANGED fcVars

Next ==
    \/ Construct
    \/ Solve
    \/ BacktrackCall
    \/ BacktrackResume
    \/ SolveReturn

Spec == Init /\ [][Next]_vars

-----------------------------------------------------------------------------
(* The constraint model and the propagator of csp.py *)

(* build_neighbors / NEIGHBORS *)
NEIGHBORS == [v \in Cells |-> Units[v[1]][v[2]] \ {v}]

(* row_major_index *)
row_major_index(v) == v[1] * N + v[2]

(* parse_puzzle_lines, on an already tokenised grid *)
ParseDomains(g) ==
    [v \in Cells |-> IF At(g, v) = 0 THEN 1 .. N ELSE {At(g, v)}]
ParseAssignments(g) ==
    [v \in Cells |-> IF At(g, v) = 0 THEN None ELSE At(g, v)]

(* all_vars *)
all_vars == [k \in 1 .. (N * N) |-> <<(k - 1) \div N, (k - 1) % N>>]

Reverse(q) == [k \in 1 .. Len(q) |-> q[Len(q) + 1 - k]]

(* an order over peer sets that were built without leaving the cell out *)
NeighborOrder_WithSelf(var, rev) ==
    LET IsPeer(x) == x \in NEIGHBORS[var] \cup {var}
        up == SelectSeq(all_vars, IsPeer)
    IN  IF rev THEN Reverse(up) ELSE up

(* The order in which "for n in NEIGHBORS[var]" visits the set.  The sets  *)
(* are built once, so the order is one per run: by increasing (rev =       *)
(* FALSE) or by decreasing row-major index.                                *)
NeighborOrder(var, rev) ==
    LET IsPeer(x) == x \in NEIGHBORS[var]
        up == SelectSeq(all_vars, IsPeer)
    IN  IF rev THEN Reverse(up) ELSE up

(* a restore that stops before the oldest pruned pair *)
RECURSIVE RestoreDoms_LeavesFirst(_, _)
RestoreDoms_LeavesFirst(doms, pruned) ==
    IF Len(pruned) <= 1 THEN doms
    ELSE LET e == pruned[Len(pruned)]
         IN  RestoreDoms_LeavesFirst([doms EXCEPT ![e[1]] = @ \cup {e[2]}],
                                     SubSeq(pruned, 1, Len(pruned) - 1))

(* FCState.restore: re-add the pruned pairs, last one first *)
RECURSIVE RestoreDoms(_, _)
RestoreDoms(doms, pruned) ==
    IF pruned = <<>> THEN doms
    ELSE LET e == pruned[Len(pruned)]
         IN  RestoreDoms([doms EXCEPT ![e[1]] = @ \cup {e[2]}],
                         SubSeq(pruned, 1, Len(pruned) - 1))

(* a forward_check that returns None without restoring *)
RECURSIVE FCFrom_NoUndo(_, _, _, _, _, _)
FCFrom_NoUndo(asg, val, doms, order, k, pruned) ==
    IF k > Len(order)
    THEN [ok |-> TRUE, doms |-> doms, pruned |-> pruned, made |-> Len(pruned)]
    ELSE LET n == order[k]
         IN  IF asg[n] # None THEN FCFrom_NoUndo(asg, val, doms, order, k + 1, pruned)
             ELSE IF val \in doms[n]
             THEN LET d2 == [doms EXCEPT ![n] = @ \ {val}]
                      p2 == Append(pruned, <<n, val>>)
                  IN  IF Cardinality(d2[n]) = 0
                      THEN [ok |-> FALSE, doms |-> d2, pruned |-> <<>>,
                            made |-> Len(p2)]
                      ELSE FCFrom_NoUndo(asg, val, d2, order, k + 1, p2)
             ELSE FCFrom_NoUndo(asg, val, doms, order, k + 1, pruned)

(* forward_check: the loop over the neighbors from position k of order on, *)
(* with the prunings recorded so far.  ok = FALSE is the None result; made *)
(* counts the removals the call made.                                      *)
RECURSIVE FCFrom(_, _, _, _, _, _)
FCFrom(asg, val, doms, order, k, pruned) ==
    IF k > Len(order)
    THEN [ok |-> TRUE, doms |-> doms, pruned |-> pruned, made |-> Len(pruned)]
    ELSE LET n == order[k]
         IN  IF asg[n] # None THEN FCFrom(asg, val, doms, order, k + 1, pruned)
             ELSE IF val \in doms[n]
             THEN LET d2 == [doms EXCEPT ![n] = @ \ {val}]
                      p2 == Append(pruned, <<n, val>>)
                  IN  IF Cardinality(d2[n]) = 0
                      THEN [ok |-> FALSE, doms |-> RestoreDoms(d2, p2),
                            pruned |-> <<>>, made |-> Len(p2)]
                      ELSE FCFrom(asg, val, d2, order, k + 1, p2)
             ELSE FCFrom(asg, val, doms, order, k + 1, pruned)

forward_check(asg, var, val, doms, rev) ==
    FCFrom(asg, val, doms, NeighborOrder(var, rev), 1, <<>>)

(* the cells the propagator runs leave unassigned: three cells of one box, *)
(* two of them in one row and two in one column                            *)
FCPool == { <<0,4>>, <<0,5>>, <<2,4>> }
FCVals == 1 .. MaxVal

(* Domains and assignments of the parsed grid whose FCPool cells are       *)
(* empty; the domains of the empty cells have been narrowed already to the *)
(* values of FCVals.                                                       *)
InitFC ==
    /\ InitSolver
    /\ domains = [v \in Cells |-> IF v \in FCPool THEN FCVals
                                   ELSE ParseDomains(MkGrid(FCPool, 0))[v]]
    /\ assignments = ParseAssignments(MkGrid(FCPool, 0))
    /\ trails = <<>>
    /\ snaps = <<>>
    /\ set_order \in BOOLEAN
    /\ fc = [op |-> "idle", size |-> 0, var |-> <<>>, val |-> 0]

(* assign *)
Assign ==
    /\ \E var \in FCPool, val \in FCVals :
        assignments' = [assignments EXCEPT ![var] = val]
    /\ UNCHANGED <<domains, trails, snaps, set_order, fc>>
    /\ UNCHANGED solverVars

(* unassign *)
Unassign ==
    /\ \E var \in FCPool :
        assignments' = IF assignments[var] # None
                       THEN [assignments EXCEPT ![var] = None]
                       ELSE assignments
    /\ UNCHANGED <<domains, trails, snaps, set_order, fc>>
    /\ UNCHANGED solverVars

(* forward_check; a returned FCState is kept by the caller, who holds at   *)
(* most MaxTrails of them                                                  *)
ForwardCheck ==
    /\ \E var \in FCPool, val \in FCVals :
        \E res \in {forward_check(assignments, var, val, domains, set_order)} :
            /\ res.ok => Len(trails) < MaxTrails
            /\ domains' = res.doms
            /\ IF res.ok
               THEN /\ trails' = Append(trails, res.pruned)
                    /\ snaps' = Append(snaps, domains)
                    /\ fc' = [op |-> "fc_ok", size |-> res.made,
                              var |-> var, val |-> val]
               ELSE /\ UNCHANGED <<trails, snaps>>
                    /\ fc' = [op |-> "fc_fail", size |-> res.made,
                              var |-> <<>>, val |-> 0]
    /\ UNCHANGED <<assignments, set_order>>
    /\ UNCHANGED solverVars

(* FCState.restore on the most recent live trail: the trails are scoped   *)
(* to the frames of the search and are restored innermost first.  The      *)
(* restored trail is cleared and dropped.                                  *)
Restore ==
    /\ trails # <<>>
    /\ domains' = RestoreDoms(domains, trails[Len(trails)])
    /\ trails' = SubSeq(trails, 1, Len(trails) - 1)
    /\ snaps' = SubSeq(snaps, 1, Len(snaps) - 1)
    /\ fc' = [op |-> "restore", size |-> Len(trails[Len(trails)]),
              var |-> <<>>, val |-> 0]
    /\ UNCHANGED <<assignments, set_order>>
    /\ UNCHANGED solverVars

NextFC ==
    \/ Assign
    \/ Unassign
    \/ ForwardCheck
    \/ Restore

SpecFC == InitFC /\ [][NextFC]_vars

-----------------------------------------------------------------------------
(* Properties of the solver, checked under Spec *)

Constructed == pc \in {"ready", "call", "ret", "done"}

UnitSets ==
    { RowCells(r) : r \in Idx } \cup { ColCells(c) : c \in Idx }
        \cup { BoxCells(r, c) : r \in {0, 3, 6}, c \in {0, 3, 6} }

(* every row, column and box holds each of 1..9 exactly once *)
IsSolution(p) == \A u \in UnitSets : { At(p, x) : x \in u } = 1 .. N

HasEmpty(p) == \E x \in Cells : At(p, x) = 0

(* two equal nonzero givens in one row, column or box *)
GivensConflict(g) ==
    \E x \in Cells : At(g, x) # 0 /\ \E y \in NEIGHBORS[x] : At(g, y) = At(g, x)

(* a filling of the empty cells of p that is a solution exists: plain      *)
(* enumeration, cell by cell in row-major order, over all values 1..9 that *)
(* do not repeat a value of the cell's row, column or box                  *)
RECURSIVE HasCompletion(_)
HasCompletion(p) ==
    IF ~HasEmpty(p) THEN IsSolution(p)
    ELSE LET x == CHOOSE y \in Cells :
                    /\ At(p, y) = 0
                    /\ \A z \in Cells : At(p, z) = 0 =>
                           row_major_index(y) <= row_major_index(z)
         IN  \E v \in 1 .. N :
                /\ \A z \in NEIGHBORS[x] : At(p, z) # v
                /\ HasCompletion(Put(p, x[1], x[2], v))

(* C1: whenever solve returns solved=True, every row, column and box of    *)
(* the solver's grid contains each of 1..9 exactly once, for every input   *)
(* grid, conflicting givens and full grids included.                       *)
C1_Validity == (pc = "done" /\ solved) => IsSolution(puzzle)

(* C2: backtrack only writes to cells that were 0 in the input: at every   *)
(* moment of the solver's life, and so whenever solve returns solved=True, *)
(* every nonzero input cell holds its input value.                         *)
C2_Preservation ==
    Constructed => \A x \in Cells : At(input, x) # 0 => At(puzzle, x) = At(input, x)

C2_Witness ==
    /\ pc = "done" /\ solved
    /\ Len(trace) >= 2
    /\ \E x \in Cells : At(input, x) = 0 /\ At(puzzle, x) # 0
    /\ \E x \in Cells : At(input, x) # 0

(* C3: a grid with two equal nonzero givens in one row, column or box is   *)
(* rejected by the constructor, so no solver exists for it and solve is    *)
(* never reached.                                                          *)
C3_ConflictRejected == Constructed => ~GivensConflict(input)

(* C4: if solve returns solved=False with timed_out=False the input grid   *)
(* has no valid completion; equivalently a grid that has a valid           *)
(* completion is solved unless the deadline expired.                       *)
C4_ExhaustedIffUnsolvable ==
    (pc = "done" /\ ~timed_out /\ ~solved) => ~HasCompletion(input)

C4_Witness ==
    /\ pc = "done" /\ ~timed_out /\ ~solved
    /\ trace # <<>>
    /\ ~GivensConflict(input)

(* C5 as stated: with time limit 0 and at least one empty cell, solve      *)
(* returns solved=False and timed_out=True whatever non-negative elapsed   *)
(* time the first deadline check sees.                                     *)
C5_Original ==
    (/\ pc = "done" /\ time_limit = 0 /\ HasEmpty(input)
     /\ first_check # <<>> /\ first_check[1] >= 0)
        => (~solved /\ timed_out)

(* C5 amended: with time limit 0 and at least one empty cell, solve        *)
(* returns solved=False and timed_out=True whenever the first deadline     *)
(* check sees a strictly positive elapsed time.                            *)
C5_ZeroLimit ==
    (/\ pc = "done" /\ time_limit = 0 /\ HasEmpty(input)
     /\ first_check # <<>> /\ first_check[1] > 0)
        => (~solved /\ timed_out)

C5_Witness ==
    /\ pc = "done" /\ time_limit = 0 /\ HasEmpty(input)
    /\ first_check # <<>> /\ first_check[1] > 0
    /\ ~solved /\ timed_out

(* C6: on a fully-filled valid grid solve returns solved=True with         *)
(* timed_out=False, the grid unchanged and no trace entry, for every time  *)
(* limit including 0.                                                      *)
C6_FullGrid ==
    (pc = "done" /\ IsSolution(input))
        => (solved /\ ~timed_out /\ puzzle = input /\ trace = <<>>)

(* C7: once a deadline check has set timed_out, and as long as the clock   *)
(* never goes backwards, no step writes a value into an empty cell, tries  *)
(* a candidate (records a trace entry) or makes a recursive call.          *)
C7_UnwindsAfterTimeout ==
    [][(timed_out /\ clock_ok') =>
          /\ \A x \in Cells : At(puzzle, x) = 0 => At(puzzle', x) = 0
          /\ trace' = trace
          /\ Len(stack') <= Len(stack)
          /\ pc' # "call"]_vars

C7_Witness ==
    /\ pc = "done" /\ timed_out /\ clock_ok
    /\ Len(trace) >= 2
    /\ puzzle = input

(* C8 as stated: when solve returns, timed_out=True implies solved=False,  *)
(* and timed_out is True only if a deadline check saw elapsed > limit.     *)
C8_Original ==
    pc = "done" => ((timed_out => ~solved) /\ (timed_out => expired))

(* C8 amended: the same, for solves during which the clock never went      *)
(* backwards.                                                              *)
C8_TimedOutNotSolved ==
    pc = "done" => (((timed_out /\ clock_ok) => ~solved) /\ (timed_out => expired))

C8_Witness ==
    /\ pc = "done" /\ timed_out /\ clock_ok /\ ~solved
    /\ trace # <<>>

-----------------------------------------------------------------------------
(* Properties of the propagator, checked under SpecFC *)

(* C9: restoring the trail of a successful forward_check, with no other    *)
(* domain change in between or after properly nested forward_check/restore *)
(* pairs, returns every cell's domain to its contents before that call.    *)
C9_RestoreRoundTrip ==
    [][(fc'.op = "restore" /\ Len(trails') < Len(trails))
          => domains' = snaps[Len(snaps)]]_vars

C9_Witness ==
    /\ fc.op = "restore" /\ fc.size >= 2
    /\ Len(trails) >= 1

(* C10: a forward_check that empties a neighbor's domain returns None and  *)
(* leaves every domain as it was before the call; a forward_check that     *)
(* returns a trail has emptied no domain.                                  *)
C10_FailureRestores ==
    [][/\ fc'.op = "fc_fail" => domains' = domains
       /\ (fc'.op = "fc_ok" /\ Len(trails') > Len(trails)) =>
              \A k \in 1 .. Len(trails'[Len(trails')]) :
                  domains'[trails'[Len(trails')][k][1]] # {}]_vars

C10_Witness ==
    /\ fc.op = "fc_fail" /\ fc.size >= 2
    /\ Len(trails) >= 1

-----------------------------------------------------------------------------
(* Properties of the selection and of the search step, checked under Spec *)

EmptyCells(p) == { x \in Cells : At(p, x) = 0 }

(* the values no cell of x's row, column or box holds *)
LegalValues(p, x) == { v \in 1 .. N : \A y \in NEIGHBORS[x] : At(p, y) # v }

(* the empty cells sharing a row, a column or a box with x *)
EmptyPeers(p, x) == { y \in NEIGHBORS[x] : At(p, y) = 0 }

NumLegal(p, x) == Cardinality(LegalValues(p, x))
NumEmptyPeers(p, x) == Cardinality(EmptyPeers(p, x))

(* the frame that made the last placement, and the grid it selected on *)
Top == stack[Len(stack)]
TopCell == <<Top.r, Top.c>>
GridAtPick == Put(puzzle, Top.r, Top.c, 0)

(* C11: among the empty cells that tie with the selected cell on both the  *)
(* number of legal candidates and the degree, find_unassigned selects the  *)
(* one with the smallest row-major index row*9+col.                        *)
C11_RowMajorTieBreak ==
    (pc = "call" /\ HasEmpty(puzzle)) =>
        \A sel \in {find_unassigned(puzzle)} :
            \A x \in EmptyCells(puzzle) :
                (/\ NumLegal(puzzle, x) = NumLegal(puzzle, <<sel.r, sel.c>>)
                 /\ NumEmptyPeers(puzzle, x) = NumEmptyPeers(puzzle, <<sel.r, sel.c>>))
                    => row_major_index(<<sel.r, sel.c>>) <= row_major_index(x)

(* the selected cell has the fewest legal candidates of all empty cells    *)
(* of p and the highest degree among the empty cells with that few         *)
MrvThenDegree(p, s) ==
    /\ At(p, s) = 0
    /\ \A x \in EmptyCells(p) :
          /\ NumLegal(p, s) <= NumLegal(p, x)
          /\ NumLegal(p, x) = NumLegal(p, s) => NumEmptyPeers(p, x) <= NumEmptyPeers(p, s)

DeadCells(p) == { x \in EmptyCells(p) : LegalValues(p, x) = {} }

(* C12 as stated: for every grid with an empty cell the selected cell has  *)
(* the minimum number of legal candidates among the empty cells and, among *)
(* the empty cells achieving that minimum, the maximum degree.             *)
C12_Original ==
    (pc = "call" /\ HasEmpty(puzzle)) =>
        \A sel \in {find_unassigned(puzzle)} : MrvThenDegree(puzzle, <<sel.r, sel.c>>)

(* C12 amended: the same for every grid whose empty cells all have a legal *)
(* candidate; when some empty cell has none, the selected cell is the      *)
(* first such cell in row-major order, whatever its degree.                *)
C12_MrvThenDegree ==
    (pc = "call" /\ HasEmpty(puzzle)) =>
        \A sel \in {find_unassigned(puzzle)} :
            IF DeadCells(puzzle) = {}
            THEN MrvThenDegree(puzzle, <<sel.r, sel.c>>)
            ELSE /\ <<sel.r, sel.c>> \in DeadCells(puzzle)
                 /\ \A x \in DeadCells(puzzle) :
                       row_major_index(<<sel.r, sel.c>>) <= row_major_index(x)

(* a placement was made on a grid where some empty cell had more legal     *)
(* candidates than the selected one and some empty cell had as few but a   *)
(* lower degree                                                            *)
C12_Witness ==
    /\ pc = "call" /\ stack # <<>>
    /\ At(puzzle, TopCell) # 0
    /\ DeadCells(GridAtPick) = {}
    /\ \E x, y \in EmptyCells(GridAtPick) :
          /\ NumLegal(GridAtPick, x) > NumLegal(GridAtPick, TopCell)
          /\ NumLegal(GridAtPick, y) = NumLegal(GridAtPick, TopCell)
          /\ NumEmptyPeers(GridAtPick, y) < NumEmptyPeers(GridAtPick, TopCell)

(* the cells a step of the search writes a value into: the placement of    *)
(* backtrack.  A step that replaces a value by another is one frame        *)
(* undoing its last value and placing its next one.                        *)
PlacedCells ==
    IF pc \in {"call", "ret"}
    THEN { x \in Cells : At(puzzle', x) # 0 /\ At(puzzle', x) # At(puzzle, x) }
    ELSE {}

(* C13: within one frame the values written into the selected cell are     *)
(* strictly increasing, so none is tried twice; each is a candidate of the *)
(* cell on the grid it was selected on; and a trace entry recorded with a  *)
(* placement carries the cell and the value placed.                        *)
C13_IncreasingValues ==
    [][\A x \in PlacedCells :
          /\ At(puzzle', x) \in LegalValues(Put(puzzle', x[1], x[2], 0), x)
          /\ At(puzzle, x) # 0 => At(puzzle', x) > At(puzzle, x)
          /\ trace' # trace =>
                /\ trace'[Len(trace')].row = x[1]
                /\ trace'[Len(trace')].col = x[2]
                /\ trace'[Len(trace')].value = At(puzzle', x)]_vars

(* a frame has placed its second or a later value, and the trace holds two *)
(* consecutive entries of that frame                                       *)
C13_Witness ==
    /\ pc = "call" /\ stack # <<>>
    /\ Top.i >= 2
    /\ At(puzzle, TopCell) = Top.cand[Top.i]
    /\ Len(trace) >= 2
    /\ trace[Len(trace)].row = Top.r /\ trace[Len(trace)].col = Top.c
    /\ trace[Len(trace)].value = At(puzzle, TopCell)
    /\ trace[Len(trace) - 1].row = Top.r /\ trace[Len(trace) - 1].col = Top.c
    /\ trace[Len(trace) - 1].value < At(puzzle, TopCell)

(* the entry a placement into cell x records *)
EntryOf(x) ==
    [row |-> x[1], col |-> x[2],
     domain_size |-> NumLegal(Put(puzzle', x[1], x[2], 0), x),
     degree |-> NumEmptyPeers(Put(puzzle', x[1], x[2], 0), x),
     value |-> At(puzzle', x)]

(* C14: the trace never holds more than 4 entries; a step that makes no    *)
(* placement, an undo included, leaves it as it is; a placement appends    *)
(* its entry (cell, candidate count and degree at selection, value) when   *)
(* the trace holds fewer than 4 entries and leaves it unchanged otherwise. *)
C14_TraceFirstFour ==
    [][/\ Len(trace') <= TraceCap
       /\ PlacedCells = {} => trace' = trace
       /\ \A x \in PlacedCells :
             trace' = IF Len(trace) < TraceCap THEN Append(trace, EntryOf(x))
                      ELSE trace]_vars

(* more than 4 placements were made, the trace is full, and a placement it  *)
(* records was undone later                                                *)
C14_Witness ==
    /\ pc = "done" /\ solved
    /\ Cardinality(EmptyCells(input)) > TraceCap
    /\ Len(trace) = TraceCap
    /\ \E k \in 1 .. TraceCap :
          At(puzzle, <<trace[k].row, trace[k].col>>) # trace[k].value

(* a 9x9 grid of values 0..9 *)
WellFormed(g) ==
    /\ DOMAIN g = Idx
    /\ \A r \in Idx : DOMAIN g[r] = Idx
    /\ \A x \in Cells : At(g, x) \in 0 .. N

(* C15: a grid that is not 9x9, or that holds a value outside 0..9, is     *)
(* rejected at construction: a solver exists only for well-formed grids.   *)
C15_MalformedRejected == Constructed => WellFormed(input)

(* exactly one cell of g is empty and exactly one value is legal for it *)
OneForced(g) ==
    /\ Cardinality(EmptyCells(g)) = 1
    /\ \A x \in EmptyCells(g) : NumLegal(g, x) = 1

(* the cell of g holds its legal value and the trace is the one entry of   *)
(* that placement with domain_size 1                                       *)
ForcedResult(g) ==
    \A x \in EmptyCells(g) : \A v \in LegalValues(g, x) :
        /\ solved
        /\ puzzle = Put(g, x[1], x[2], v)
        /\ Len(trace) = 1
        /\ trace[1].row = x[1] /\ trace[1].col = x[2]
        /\ trace[1].domain_size = 1
        /\ trace[1].value = v

(* C16 as stated: for every grid with exactly one empty cell that has      *)
(* exactly one legal value, solve returns solved=True with the cell set to *)
(* that value and a trace of one entry for it with domain_size=1.          *)
C16_Original == (pc = "done" /\ OneForced(input)) => ForcedResult(input)

(* C16 amended: the same whenever no deadline check of that solve expired; *)
(* when one expired, solve returns solved=False.                           *)
C16_ForcedCell ==
    (pc = "done" /\ OneForced(input)) =>
        IF timed_out THEN ~solved ELSE ForcedResult(input)

C16_Witness ==
    /\ pc = "done" /\ OneForced(input) /\ ~timed_out
    /\ solved /\ Len(trace) = 1
    /\ ~HasEmpty(puzzle)

(* C17: a backtrack call whose selected cell has no legal candidate        *)
(* returns False and leaves the grid, the trace and the call stack as they *)
(* are: no cell is written, no entry appended, no recursive call made.     *)
C17_DeadEndReturns ==
    [][pc = "call" =>
          \A sel \in {find_unassigned(puzzle)} :
              (sel.r # None /\ LegalValues(puzzle, <<sel.r, sel.c>>) = {}) =>
                  /\ pc' = "ret" /\ retval' = FALSE
                  /\ puzzle' = puzzle
                  /\ trace' = trace
                  /\ stack' = stack]_vars

(* a recursive call found a cell without candidate and returned False      *)
(* with the deadline not expired                                           *)
C17_Witness ==
    /\ pc = "ret" /\ ~retval /\ ~timed_out
    /\ stack # <<>>
    /\ At(puzzle, TopCell) # 0
    /\ DeadCells(puzzle) # {}
    /\ ~GivensConflict(input)

(* C18: no recursive backtrack call is made for a placement that leaves an *)
(* empty peer of the placed cell without candidate: the propagator run     *)
(* after the placement finds the contradiction and the value is undone.    *)
C18_NoRecursionOnWipeout ==
    (pc = "call" /\ stack # <<>>) =>
        \A y \in EmptyPeers(puzzle, TopCell) : LegalValues(puzzle, y) # {}

(* the grid at the entry of the call made by the innermost frame of st:    *)
(* the input with the value each live frame has placed in its cell         *)
RECURSIVE GridAt(_, _)
GridAt(g, st) ==
    IF st = <<>> THEN g
    ELSE LET f == st[Len(st)]
         IN  Put(GridAt(g, SubSeq(st, 1, Len(st) - 1)), f.r, f.c, f.cand[f.i])

(* C20: a backtrack call is entered on the input grid plus the placements  *)
(* of the frames live below it, and whenever it returns False, at once or  *)
(* after trying values, by exhaustion or by deadline expiry, the grid is   *)
(* again that grid; so when solve returns solved=False the grid equals the *)
(* input grid.                                                             *)
C20_GridRestored ==
    [][/\ pc' = "call" => puzzle' = GridAt(input', stack')
       /\ (pc = "call" /\ pc' = "ret" /\ ~retval') =>
              (stack' = stack /\ puzzle' = puzzle)
       /\ (pc = "ret" /\ pc' = "ret" /\ ~retval' /\ Len(stack') < Len(stack)) =>
              puzzle' = GridAt(input, stack')
       /\ (pc' = "done" /\ ~solved') => puzzle' = input']_vars

(* solve returned False after at least 4 placements, all undone *)
C20_Witness ==
    /\ pc = "done" /\ ~solved
    /\ Len(trace) = TraceCap
    /\ HasEmpty(input)
    /\ puzzle = input

-----------------------------------------------------------------------------
(* Frame of the propagator, checked under SpecFC *)

(* the unassigned neighbors of var whose domain holds val *)
Hit(var, val) ==
    { n \in NEIGHBORS[var] : assignments[n] = None /\ val \in domains[n] }

(* C19: after a forward_check(assignments, var, val, domains) that returns *)
(* a trail, val is in no unassigned neighbor's domain; the trail holds     *)
(* exactly one pair (n, val) for each unassigned neighbor n whose domain   *)
(* held val before the call and nothing else; every domain is as before    *)
(* except that these neighbors lost val, so the domains of var, of         *)
(* assigned neighbors and of non-neighbors and all other values are        *)
(* unchanged; and the assignments are unchanged.                           *)
C19_ForwardCheckFrame ==
    [][(fc'.op = "fc_ok" /\ Len(trails') > Len(trails)) =>
          /\ \A n \in NEIGHBORS[fc'.var] :
                assignments[n] = None => fc'.val \notin domains'[n]
          /\ { trails'[Len(trails')][k] : k \in 1 .. Len(trails'[Len(trails')]) }
                = { <<n, fc'.val>> : n \in Hit(fc'.var, fc'.val) }
          /\ Len(trails'[Len(trails')]) = Cardinality(Hit(fc'.var, fc'.val))
          /\ \A n \in Cells :
                domains'[n] = IF n \in Hit(fc'.var, fc'.val)
                              THEN domains[n] \ {fc'.val}
                              ELSE domains[n]
          /\ assignments' = assignments]_vars

(* a forward_check returned a trail with a pruning while a neighbor of var *)
(* was assigned and held val in its domain                                 *)
C19_Witness ==
    /\ fc.op = "fc_ok" /\ fc.size >= 1
    /\ trails # <<>>
    /\ Len(trails[Len(trails)]) = fc.size
    /\ \E n \in NEIGHBORS[fc.var] :
          assignments[n] # None /\ n \in FCPool /\ fc.val \in domains[n]

=============================================================================
